---- MODULE Spec2Model ----
(***************************************************************************)
(* The dashboard start-up script src/app.py as a state machine.            *)
(*                                                                         *)
(* The script runs top to bottom once: load_sentiment_data (17-33), the    *)
(* 7-day filter (36-37), the caption dates (39-40), the aggregates         *)
(* (43-69), the table preparation (71-73), the layout (76-123) and         *)
(* app.run (125-126).  An uncaught exception in any statement ends the     *)
(* process.                                                                *)
(*                                                                         *)
(* Representation.  A timestamp is a whole number of hours; its calendar   *)
(* date is the day number and its hour the hour of that day.  A str of the *)
(* topics column is the sequence of its characters (the serialized list    *)
(* ['ai'] is <<"[", "'", "a", "i", "'", "]">>); the text column is the     *)
(* sequence of its words; a str the script only passes through (title,     *)
(* url, source, sentiment) is an atom.  None is a missing (NULL) value.    *)
(***************************************************************************)
EXTENDS Integers, Sequences, FiniteSets, TLC

VARIABLES
  stored,            \* rows of the backend table (a relation: no order)
  now,               \* the date datetime.now().date() returns
  fetched,           \* what the query of line 25 met: backend up, rows returned
  pc,                \* the statement group the script is at
  error,             \* the uncaught exception that ended the process, or None
  trace,             \* the statement groups that have completed, in order
  df,                \* the module-level data frame
  last_7_days,       \* line 36
  date_from,         \* line 39
  date_to,           \* line 40
  sentiment_counts,  \* line 43
  text,              \* line 47
  sentiment_trend,   \* line 58
  source_sentiment,  \* line 61
  hourly_sentiment,  \* line 64
  topic_counts,      \* line 67
  df_sorted,         \* line 73
  layout             \* line 89

vars ==
  << stored, now, fetched, pc, error, trace, df, last_7_days, date_from, date_to,
     sentiment_counts, text, sentiment_trend, source_sentiment,
     hourly_sentiment, topic_counts, df_sorted, layout >>

----------------------------------------------------------------------------
(* Bounds of the model and constants of the program *)

MaxRows == 2

ScenarioDays == 10

ScenarioPositive == 6

QueryLimit == 200

WindowDays == 7

HoursPerDay == 24

PageSize == 10

None == "None"

----------------------------------------------------------------------------
(* Helpers *)

Min2(a, b) == IF a <= b THEN a ELSE b

SetMin(S) == CHOOSE x \in S : \A y \in S : x <= y

SetMax(S) == CHOOSE x \in S : \A y \in S : y <= x

RECURSIVE SumFun(_)
SumFun(f) ==
  IF DOMAIN f = {} THEN 0
  ELSE LET k == CHOOSE x \in DOMAIN f : TRUE
       IN f[k] + SumFun([x \in DOMAIN f \ {k} |-> f[x]])

----------------------------------------------------------------------------
(* The backend query, lines 19-25 *)

RECURSIVE DescOrders(_)
DescOrders(S) ==
  IF S = {} THEN { <<>> }
  ELSE LET top == SetMax({ r.publishedAt : r \in S })
       IN UNION { { <<r>> \o t : t \in DescOrders(S \ {r}) } :
                    r \in { x \in S : x.publishedAt = top } }

QueryResults(S) ==
  { SubSeq(o, 1, Min2(Len(o), QueryLimit)) : o \in DescOrders(S) }

----------------------------------------------------------------------------
(* Python values of the topics column, and eval, line 30                   *)
(*                                                                         *)
(* A value is a str (its characters in text), a list or a tuple (its       *)
(* elements in items) or None.  The texts eval is given are over the       *)
(* characters [ ] , ' space and letters; a name outside quotes is one that *)
(* is neither a keyword, a string prefix nor bound where eval runs.        *)

Str(t) == [kind |-> "str", text |-> t, items |-> <<>>]

List(v) == [kind |-> "list", text |-> <<>>, items |-> v]

Tuple(v) == [kind |-> "tuple", text |-> <<>>, items |-> v]

Null == [kind |-> "null", text |-> <<>>, items |-> <<>>]

Special == {"[", "]", ",", "'", " "}

Quote3(t, i) == i + 2 <= Len(t) /\ t[i] = "'" /\ t[i + 1] = "'" /\ t[i + 2] = "'"

Tok(type, val) == [type |-> type, val |-> val]

LexBad == [ok |-> FALSE, toks |-> <<>>]

\* the end of the run of name characters that starts at i
RECURSIVE NameEnd(_, _)
NameEnd(t, i) ==
  IF i + 1 <= Len(t) /\ t[i + 1] \notin Special THEN NameEnd(t, i + 1) ELSE i

\* the tokens of the text from position i on: brackets, commas, string
\* literals ('...' and the triple-quoted form) and names; an unterminated
\* string literal is a SyntaxError
RECURSIVE Lex(_, _, _)
Lex(t, i, acc) ==
  IF i > Len(t) THEN [ok |-> TRUE, toks |-> acc]
  ELSE IF t[i] = " " THEN Lex(t, i + 1, acc)
  ELSE IF t[i] \in {"[", "]", ","} THEN Lex(t, i + 1, Append(acc, Tok(t[i], <<>>)))
  ELSE IF Quote3(t, i)
    THEN LET ends == { j \in (i + 3)..Len(t) : Quote3(t, j) }
         IN IF ends = {} THEN LexBad
            ELSE LET j == CHOOSE x \in ends : \A y \in ends : x <= y
                 IN Lex(t, j + 3, Append(acc, Tok("str", SubSeq(t, i + 3, j - 1))))
  ELSE IF t[i] = "'"
    THEN LET ends == { j \in (i + 1)..Len(t) : t[j] = "'" }
         IN IF ends = {} THEN LexBad
            ELSE LET j == CHOOSE x \in ends : \A y \in ends : x <= y
                 IN Lex(t, j + 1, Append(acc, Tok("str", SubSeq(t, i + 1, j - 1))))
  ELSE LET j == NameEnd(t, i)
       IN Lex(t, j + 1, Append(acc, Tok("name", SubSeq(t, i, j))))

\* A parse result: ok is the syntax, pos the next token, err the first
\* exception evaluation raises (None when it raises none), val the value
ParseBad == [ok |-> FALSE, pos |-> 0, err |-> None, val |-> Null]

Parsed(pos, err, val) == [ok |-> TRUE, pos |-> pos, err |-> err, val |-> val]

FirstErr(a, b) == IF a # None THEN a ELSE b

IsTok(ts, i, type) == i <= Len(ts) /\ ts[i].type = type

\* the closer of a sequence of expressions: "]", or "$" for the end of input
AtClose(ts, i, close) == IF close = "$" THEN i > Len(ts) ELSE IsTok(ts, i, close)

\* adjacent string literals are one str
RECURSIVE Strings(_, _, _)
Strings(ts, i, acc) ==
  IF IsTok(ts, i, "str") THEN Strings(ts, i + 1, acc \o ts[i].val)
  ELSE Parsed(i, None, Str(acc))

RECURSIVE ParseSeq(_, _, _, _, _, _)
RECURSIVE ParseAtom(_, _)
RECURSIVE Trailers(_, _, _, _)
RECURSIVE ParsePrimary(_, _)

\* expressions separated by commas, a trailing comma allowed, up to the
\* closer; val is the sequence of their values, commas their number of commas
ParseSeq(ts, i, close, vals, err, commas) ==
  IF AtClose(ts, i, close)
    THEN [ok |-> TRUE, pos |-> i + 1, err |-> err, val |-> vals, commas |-> commas]
  ELSE LET p == ParsePrimary(ts, i)
       IN IF ~p.ok THEN [ok |-> FALSE, pos |-> 0, err |-> None, val |-> <<>>, commas |-> 0]
          ELSE IF AtClose(ts, p.pos, close)
            THEN [ok |-> TRUE, pos |-> p.pos + 1, err |-> FirstErr(err, p.err),
                  val |-> Append(vals, p.val), commas |-> commas]
          ELSE IF IsTok(ts, p.pos, ",")
            THEN ParseSeq(ts, p.pos + 1, close, Append(vals, p.val),
                          FirstErr(err, p.err), commas + 1)
          ELSE [ok |-> FALSE, pos |-> 0, err |-> None, val |-> <<>>, commas |-> 0]

\* a name (unbound: NameError), string literals, or a list display
ParseAtom(ts, i) ==
  IF IsTok(ts, i, "name") THEN Parsed(i + 1, "NameError", Null)
  ELSE IF IsTok(ts, i, "str") THEN Strings(ts, i, <<>>)
  ELSE IF IsTok(ts, i, "[")
    THEN LET s == ParseSeq(ts, i + 1, "]", <<>>, None, 0)
         IN IF s.ok THEN Parsed(s.pos, s.err, List(s.val)) ELSE ParseBad
  ELSE ParseBad

\* subscriptions x[...]: the index is never an integer, so one that is
\* reached raises TypeError
Trailers(ts, i, err, val) ==
  IF IsTok(ts, i, "[")
    THEN LET s == ParseSeq(ts, i + 1, "]", <<>>, err, 0)
         IN IF ~s.ok \/ s.val = <<>> THEN ParseBad
            ELSE Trailers(ts, s.pos, FirstErr(s.err, "TypeError"), Null)
  ELSE Parsed(i, err, val)

ParsePrimary(ts, i) ==
  LET a == ParseAtom(ts, i)
  IN IF a.ok THEN Trailers(ts, a.pos, a.err, a.val) ELSE ParseBad

EvalRaises(e) == [ok |-> FALSE, error |-> e, val |-> Null]

EvalReturns(v) == [ok |-> TRUE, error |-> None, val |-> v]

\* eval(text): one expression is its value, several separated by commas
\* (or one with a trailing comma) a tuple
py_eval(t) ==
  LET lx == Lex(t, 1, <<>>)
  IN IF ~lx.ok THEN EvalRaises("SyntaxError")
     ELSE LET s == ParseSeq(lx.toks, 1, "$", <<>>, None, 0)
          IN IF ~s.ok \/ s.val = <<>> THEN EvalRaises("SyntaxError")
             ELSE IF s.err # None THEN EvalRaises(s.err)
             ELSE IF s.commas = 0 THEN EvalReturns(s.val[1])
             ELSE EvalReturns(Tuple(s.val))

----------------------------------------------------------------------------
(* Input domains *)

Stamps ==
  { d[1] * HoursPerDay + d[2] :
      d \in { <<1, 9>>, <<8, 9>>, <<8, 17>>, <<9, 9>> } }

Todays == {8, 9}

Sentiments == {"positive", "negative", None}

LabelAi == Str(<<"a", "i">>)

LabelCloud == Str(<<"c", "l", "o", "u", "d">>)

ListTopics == { List(<<>>), List(<<LabelAi, LabelCloud>>) }

\* the texts ['ai'] and ['ai
TextTopics ==
  { Str(<<"[", "'", "a", "i", "'", "]">>), Str(<<"[", "'", "a", "i">>) }

NullTopics == { Null }

TopicValues == ListTopics \cup TextTopics \cup NullTopics

Row(ts, s, tp) ==
  [publishedAt |-> ts, title |-> "t", sentiment |-> s, topics |-> tp,
   text |-> <<"news">>, source |-> "bbc", url |-> "u"]

StoredRows == { Row(ts, s, tp) : ts \in Stamps, s \in Sentiments, tp \in TopicValues }

----------------------------------------------------------------------------
(* load_sentiment_data, lines 17-31 *)

Failed(e) == [ok |-> FALSE, error |-> e, df |-> <<>>]

Loaded(f) == [ok |-> TRUE, error |-> None, df |-> f]

\* lines 26-28: the date and hour columns
WithDerived(r) ==
  [publishedAt |-> r.publishedAt, title |-> r.title, sentiment |-> r.sentiment,
   topics |-> r.topics, text |-> r.text, source |-> r.source, url |-> r.url,
   date |-> r.publishedAt \div HoursPerDay,
   hour |-> r.publishedAt % HoursPerDay]

Frame(res) == [i \in 1..Len(res) |-> WithDerived(res[i])]

\* line 30: df["topics"].apply(eval), row by row; eval of a value that is
\* not a str raises TypeError, and eval of a str raises what py_eval says
RECURSIVE ApplyEval(_, _, _)
ApplyEval(f, i, acc) ==
  IF i > Len(f) THEN Loaded(acc)
  ELSE IF f[i].topics.kind # "str" THEN Failed("TypeError")
  ELSE LET e == py_eval(f[i].topics.text)
       IN IF ~e.ok THEN Failed(e.error)
          ELSE ApplyEval(f, i + 1, Append(acc, [f[i] EXCEPT !.topics = e.val]))

\* a loader that skips the first-row test on an empty result
load_sentiment_data_guarded(up, res) ==
  IF ~up THEN Failed("BackendError")
  ELSE LET f == Frame(res)
       IN IF Len(f) = 0 THEN Loaded(f)
          ELSE IF f[1].topics.kind = "str" THEN ApplyEval(f, 1, <<>>)
          ELSE Loaded(f)

\* line 29: only the first row's value decides whether eval is applied
FirstIsStr(f) == f[1].topics.kind = "str"

load_sentiment_data(up, res) ==
  IF ~up THEN Failed("BackendError")
  ELSE LET f == Frame(res)
       IN IF Len(f) = 0 THEN Failed("IndexError")
          ELSE IF FirstIsStr(f) THEN ApplyEval(f, 1, <<>>)
          ELSE Loaded(f)

----------------------------------------------------------------------------
(* The filter, lines 36-37 *)

\* a window that leaves out the day today-7
InWindowStrict(r, cutoff) == r.date > cutoff

InWindow(r, cutoff) == r.date >= cutoff

RECURSIVE Keep(_, _)
Keep(d, cutoff) ==
  IF d = <<>> THEN <<>>
  ELSE IF InWindow(Head(d), cutoff) THEN <<Head(d)>> \o Keep(Tail(d), cutoff)
  ELSE Keep(Tail(d), cutoff)

----------------------------------------------------------------------------
(* The caption dates, lines 39-40 *)

Dates(d) == { d[i].date : i \in 1..Len(d) }

strftime(day) == [fmt |-> "%B %d, %Y", day |-> day]

----------------------------------------------------------------------------
(* The aggregates, lines 43-69 *)

Cell(v) == [na |-> FALSE, val |-> v]

NaCell == [na |-> TRUE, val |-> Null]

Present(cells) == { i \in 1..Len(cells) : ~cells[i].na }

\* value_counts(dropna=False): missing values counted under their own key
value_counts_keepna(cells) ==
  [k \in { cells[i].val : i \in 1..Len(cells) } |->
     Cardinality({ i \in 1..Len(cells) : cells[i].val = k })]

\* Series.value_counts(): counts per value, missing values dropped
value_counts(cells) ==
  [k \in { cells[i].val : i \in Present(cells) } |->
     Cardinality({ i \in Present(cells) : cells[i].val = k })]

\* DataFrame.groupby(keys).size(): rows per key, rows with a missing key dropped
groupby_size(cells) ==
  [k \in { cells[i].val : i \in Present(cells) } |->
     Cardinality({ i \in Present(cells) : cells[i].val = k })]

SentimentColumn(d) ==
  [i \in 1..Len(d) |->
     [na |-> d[i].sentiment = None, val |-> d[i].sentiment]]

DateSentimentKeys(d) ==
  [i \in 1..Len(d) |->
     [na |-> d[i].sentiment = None, val |-> <<d[i].date, d[i].sentiment>>]]

SourceSentimentKeys(d) ==
  [i \in 1..Len(d) |->
     [na |-> d[i].sentiment = None \/ d[i].source = None,
      val |-> <<d[i].source, d[i].sentiment>>]]

HourSentimentKeys(d) ==
  [i \in 1..Len(d) |->
     [na |-> d[i].sentiment = None, val |-> <<d[i].hour, d[i].sentiment>>]]

\* an explode that keeps the row of an empty list as a label of its own
ExplodeRowKeepsEmpty(r) ==
  IF r.topics.kind \in {"list", "tuple"}
    THEN IF r.topics.items = <<>> THEN <<Cell(Str(<<>>))>>
         ELSE [j \in 1..Len(r.topics.items) |-> Cell(r.topics.items[j])]
  ELSE IF r.topics.kind = "str" THEN <<Cell(r.topics)>>
  ELSE <<NaCell>>

\* DataFrame.explode on one row: a list or a tuple gives one cell per
\* element, an empty one a missing cell, a str one cell holding it, None a
\* missing cell
ExplodeRow(r) ==
  IF r.topics.kind \in {"list", "tuple"}
    THEN IF r.topics.items = <<>> THEN <<NaCell>>
         ELSE [j \in 1..Len(r.topics.items) |-> Cell(r.topics.items[j])]
  ELSE IF r.topics.kind = "str" THEN <<Cell(r.topics)>>
  ELSE <<NaCell>>

RECURSIVE explode(_)
explode(d) == IF d = <<>> THEN <<>> ELSE ExplodeRow(Head(d)) \o explode(Tail(d))

\* value_counts hashes the values it counts: a list cannot be hashed, nor
\* a tuple that holds one
RECURSIVE Hashable(_)
Hashable(v) ==
  IF v.kind = "list" THEN FALSE
  ELSE IF v.kind = "tuple" THEN \A j \in 1..Len(v.items) : Hashable(v.items[j])
  ELSE TRUE

Unhashable(cells) == \E i \in Present(cells) : ~Hashable(cells[i].val)

\* sep.join(parts)
RECURSIVE JoinStr(_, _)
JoinStr(sep, parts) ==
  IF parts = <<>> THEN <<>>
  ELSE IF Len(parts) = 1 THEN parts[1]
  ELSE parts[1] \o sep \o JoinStr(sep, Tail(parts))

Corpus(d) == JoinStr(<<" ">>, [i \in 1..Len(d) |-> d[i].text])

\* WordCloud.generate needs at least one word
Words(t) == { i \in 1..Len(t) : t[i] # " " }

----------------------------------------------------------------------------
(* The table, lines 71-73 and 115 *)

MarkdownLink(r) == <<"[", r.title, "](", r.url, ")">>

JoinRaises == [ok |-> FALSE, val |-> <<>>]

\* ", ".join(x): the characters of a str, or the elements of a list or a
\* tuple when each is a str; TypeError for any other element and for None
TopicsDisplay(tp) ==
  IF tp.kind = "str"
    THEN [ok |-> TRUE,
          val |-> JoinStr(<<",", " ">>, [j \in 1..Len(tp.text) |-> <<tp.text[j]>>])]
  ELSE IF tp.kind = "null" THEN JoinRaises
  ELSE IF \E j \in 1..Len(tp.items) : tp.items[j].kind # "str" THEN JoinRaises
  ELSE [ok |-> TRUE,
        val |-> JoinStr(<<",", " ">>, [j \in 1..Len(tp.items) |-> tp.items[j].text])]

WithTitle(r) == [r EXCEPT !.title = MarkdownLink(r)]

WithDisplay(r) ==
  [publishedAt |-> r.publishedAt, title |-> r.title, sentiment |-> r.sentiment,
   topics |-> r.topics, text |-> r.text, source |-> r.source, url |-> r.url,
   date |-> r.date, hour |-> r.hour,
   topics_display |-> TopicsDisplay(r.topics).val]

\* the orders of the rows with indices in I that go by cmp on publishedAt,
\* rows with equal timestamps in any order
RECURSIVE Orders(_, _, _)
Orders(d, I, asc) ==
  IF I = {} THEN { <<>> }
  ELSE LET first == { i \in I : \A j \in I :
                        IF asc THEN d[i].publishedAt <= d[j].publishedAt
                        ELSE d[i].publishedAt >= d[j].publishedAt }
       IN UNION { { <<d[i]>> \o t : t \in Orders(d, I \ {i}, asc) } : i \in first }

\* sort_values with ascending=True
sort_values_ascending(d) == Orders(d, 1..Len(d), TRUE)

\* sort_values("publishedAt", ascending=False) with the default sort, which
\* promises no order among rows with equal timestamps: the set of outcomes
sort_values(d) == Orders(d, 1..Len(d), FALSE)

TableRow(r) ==
  [source |-> r.source, title |-> r.title, topics_display |-> r.topics_display,
   sentiment |-> r.sentiment, publishedAt |-> r.publishedAt]

TableData(d) == [i \in 1..Len(d) |-> TableRow(d[i])]

----------------------------------------------------------------------------
(* The state machine *)

Order == <<"load", "filter", "caption", "aggregate", "prepare", "layout", "serve">>

Start ==
  /\ fetched = None
  /\ pc = "load"
  /\ error = None
  /\ trace = <<>>
  /\ df = <<>>
  /\ last_7_days = None
  /\ date_from = None
  /\ date_to = None
  /\ sentiment_counts = <<>>
  /\ text = <<>>
  /\ sentiment_trend = <<>>
  /\ source_sentiment = <<>>
  /\ hourly_sentiment = <<>>
  /\ topic_counts = <<>>
  /\ df_sorted = <<>>
  /\ layout = None

Init ==
  /\ \E n \in 0..MaxRows : \E f \in [1..n -> StoredRows] :
       stored = { f[i] : i \in 1..n }
  /\ now \in Todays
  /\ Start

Done(step) ==
  /\ pc' = IF step = "serve" THEN "serving"
           ELSE Order[1 + CHOOSE i \in 1..Len(Order) : Order[i] = step]
  /\ error' = None
  /\ trace' = Append(trace, step)

Crash(e) ==
  /\ pc' = "crashed"
  /\ error' = e
  /\ trace' = trace

\* line 33: df = load_sentiment_data()
Load ==
  /\ pc = "load"
  /\ \E up \in BOOLEAN, res \in QueryResults(stored) :
       LET out == load_sentiment_data(up, res)
       IN /\ fetched' = [up |-> up, rows |-> IF up THEN res ELSE <<>>]
          /\ IF out.ok THEN df' = out.df /\ Done("load")
             ELSE df' = df /\ Crash(out.error)
  /\ UNCHANGED << stored, now, last_7_days, date_from, date_to,
                  sentiment_counts, text, sentiment_trend, source_sentiment,
                  hourly_sentiment, topic_counts, df_sorted, layout >>

\* lines 36-37
Filter ==
  /\ pc = "filter"
  /\ last_7_days' = now - WindowDays
  /\ df' = Keep(df, now - WindowDays)
  /\ Done("filter")
  /\ UNCHANGED << stored, now, fetched, date_from, date_to,
                  sentiment_counts, text, sentiment_trend, source_sentiment,
                  hourly_sentiment, topic_counts, df_sorted, layout >>

\* lines 39-40: min() of an empty column is NaN, which has no strftime
Caption ==
  /\ pc = "caption"
  /\ IF Len(df) = 0
       THEN Crash("AttributeError") /\ UNCHANGED << date_from, date_to >>
       ELSE /\ date_from' = strftime(SetMin(Dates(df)))
            /\ date_to' = strftime(SetMax(Dates(df)))
            /\ Done("caption")
  /\ UNCHANGED << stored, now, fetched, df, last_7_days,
                  sentiment_counts, text, sentiment_trend, source_sentiment,
                  hourly_sentiment, topic_counts, df_sorted, layout >>

\* lines 43-69
Aggregate ==
  /\ pc = "aggregate"
  /\ sentiment_counts' = value_counts(SentimentColumn(df))
  /\ text' = Corpus(df)
  /\ IF Words(Corpus(df)) = {}
       THEN /\ Crash("ValueError")
            /\ UNCHANGED << sentiment_trend, source_sentiment,
                            hourly_sentiment, topic_counts >>
       ELSE /\ sentiment_trend' = groupby_size(DateSentimentKeys(df))
            /\ source_sentiment' = groupby_size(SourceSentimentKeys(df))
            /\ hourly_sentiment' = groupby_size(HourSentimentKeys(df))
            /\ IF Unhashable(explode(df))
                 THEN Crash("TypeError") /\ UNCHANGED topic_counts
                 ELSE /\ topic_counts' = value_counts(explode(df))
                      /\ Done("aggregate")
  /\ UNCHANGED << stored, now, fetched, df, last_7_days, date_from, date_to,
                  df_sorted, layout >>

\* lines 71-73: a join that raises ends the process after line 71
Prepare ==
  /\ pc = "prepare"
  /\ LET titled == [i \in 1..Len(df) |-> WithTitle(df[i])]
         shown == [i \in 1..Len(df) |-> WithDisplay(titled[i])]
     IN IF \E i \in 1..Len(df) : ~TopicsDisplay(df[i].topics).ok
          THEN /\ df' = titled
               /\ df_sorted' = df_sorted
               /\ Crash("TypeError")
          ELSE /\ df' = shown
               /\ df_sorted' \in sort_values(shown)
               /\ Done("prepare")
  /\ UNCHANGED << stored, now, fetched, last_7_days, date_from, date_to,
                  sentiment_counts, text, sentiment_trend, source_sentiment,
                  hourly_sentiment, topic_counts, layout >>

\* lines 76-123
Layout ==
  /\ pc = "layout"
  /\ layout' = [caption |-> <<"Showing articles from", date_from, "to", date_to>>,
                total |-> Len(df_sorted),
                data |-> TableData(df_sorted),
                page_size |-> PageSize]
  /\ Done("layout")
  /\ UNCHANGED << stored, now, fetched, df, last_7_days, date_from, date_to,
                  sentiment_counts, text, sentiment_trend, source_sentiment,
                  hourly_sentiment, topic_counts, df_sorted >>

\* lines 125-126: app.run
Serve ==
  /\ pc = "serve"
  /\ Done("serve")
  /\ UNCHANGED << stored, now, fetched, df, last_7_days, date_from, date_to,
                  sentiment_counts, text, sentiment_trend, source_sentiment,
                  hourly_sentiment, topic_counts, df_sorted, layout >>

Next ==
  \/ Load
  \/ Filter
  \/ Caption
  \/ Aggregate
  \/ Prepare
  \/ Layout
  \/ Serve

Spec == Init /\ [][Next]_vars

\* The scenario of ScenarioDays records, one per day on the consecutive days
\* ending today, ScenarioPositive of them positive and the rest negative
InitScenario ==
  /\ \E f \in [0..(ScenarioDays - 1) -> {"positive", "negative"}] :
       /\ Cardinality({ d \in DOMAIN f : f[d] = "positive" }) = ScenarioPositive
       /\ stored = { Row(d * HoursPerDay + 9, f[d], List(<<LabelAi>>)) :
                       d \in DOMAIN f }
  /\ now = ScenarioDays - 1
  /\ Start

SpecScenario == InitScenario /\ [][Next]_vars


----------------------------------------------------------------------------
(* Vocabulary of the properties *)

Ran(step) == \E i \in 1..Len(trace) : trace[i] = step

\* the topic labels a row of the frame holds: the elements of a list, a str
\* as the one label it is, nothing for a missing value
LabelsOf(r) ==
  IF r.topics.kind \in {"list", "tuple"} THEN r.topics.items
  ELSE IF r.topics.kind = "str" THEN <<r.topics>>
  ELSE <<>>

\* the (record, topic) pairs of a frame, a pair per position of a label
Pairs(d) ==
  UNION { { <<i, j>> : j \in 1..Len(LabelsOf(d[i])) } : i \in 1..Len(d) }

PairsOf(d, k) == { p \in Pairs(d) : LabelsOf(d[p[1]])[p[2]] = k }

CountOf(f, k) == IF k \in DOMAIN f THEN f[k] ELSE 0

\* the stored rows the window of the current date admits
Admitted == { r \in stored : r.publishedAt \div HoursPerDay >= now - WindowDays }

DayTotal(day) ==
  SumFun([k \in { x \in DOMAIN sentiment_trend : x[1] = day } |-> sentiment_trend[k]])

\* the load stage meets one of its failures: backend unreachable, no rows,
\* or, among the rows it decodes, text that eval rejects
LoadFailure ==
  \/ ~fetched.up
  \/ fetched.rows = <<>>
  \/ /\ fetched.rows[1].topics.kind = "str"
     /\ \E i \in 1..Len(fetched.rows) :
          /\ fetched.rows[i].topics.kind = "str"
          /\ ~py_eval(fetched.rows[i].topics.text).ok

IsPrefix(s, t) == Len(s) <= Len(t) /\ s = SubSeq(t, 1, Len(s))

----------------------------------------------------------------------------
(* The claims *)

\* C1 (as claimed): after the filter every retained record's date lies in
\* [today-7, today], the upper bound included.
C1_WindowBothBounds ==
  Ran("filter") =>
    \A i \in 1..Len(df) : last_7_days <= df[i].date /\ df[i].date <= now

\* C2 (as claimed): of the records on ScenarioDays consecutive days ending
\* today the filter retains those of the 7 most recent days, and the sentiment
\* distribution sums to that count.
C2_SevenRetained ==
  /\ Ran("filter") => Len(df) = WindowDays
  /\ Ran("aggregate") => SumFun(sentiment_counts) = WindowDays

\* C2 (amended): the filter retains the records of the 8 most recent days,
\* today-7 to today, one each, and the sentiment distribution sums to that
\* retained count, not to the number of records loaded.
C2_EightRetained ==
  /\ Ran("filter") =>
       /\ Len(df) = WindowDays + 1
       /\ Dates(df) = (now - WindowDays)..now
  /\ Ran("aggregate") =>
       /\ SumFun(sentiment_counts) = Len(df)
       /\ SumFun(sentiment_counts) = WindowDays + 1
       /\ SumFun(sentiment_counts) # ScenarioDays

C2_Witness ==
  /\ Ran("aggregate")
  /\ Cardinality(stored) = ScenarioDays
  /\ Len(fetched.rows) = ScenarioDays
  /\ Len(df) < ScenarioDays

\* C3 (as claimed): when the filter leaves no record the script does not
\* crash on the caption dates.
C3_EmptyFilteredRenders ==
  (Ran("filter") /\ Len(df) = 0) => pc # "crashed"

\* C4 (as claimed): the counts of the sentiment distribution sum to the number
\* of filtered records, a record with a missing sentiment included.
C4_SentimentSumIsCount ==
  Ran("aggregate") => SumFun(sentiment_counts) = Len(df)

\* C5 (as claimed): the topic counts sum to at least the number of filtered
\* records and to the number of (record, topic) pairs.
C5_TopicSumFanOut ==
  Ran("aggregate") =>
    /\ SumFun(topic_counts) >= Len(df)
    /\ SumFun(topic_counts) = Cardinality(Pairs(df))

\* C5 (amended): the topic counts sum to the number of (record, topic) pairs,
\* each topic's count being the number of its pairs; the sum is at least the
\* number of filtered records when every record holds at least one label.
C5_TopicSumIsPairs ==
  Ran("aggregate") =>
    /\ SumFun(topic_counts) = Cardinality(Pairs(df))
    /\ \A k \in DOMAIN topic_counts : topic_counts[k] = Cardinality(PairsOf(df, k))
    /\ (\A i \in 1..Len(df) : Len(LabelsOf(df[i])) >= 1) =>
         SumFun(topic_counts) >= Len(df)

C5_Witness ==
  /\ Ran("aggregate")
  /\ \E i, j \in 1..Len(df) :
       /\ Len(LabelsOf(df[i])) = 2
       /\ df[j].topics.kind = "list" /\ df[j].topics.items = <<>>
  /\ SumFun(topic_counts) = 2

\* C6: a retained record whose topic list is empty adds no topic key and
\* nothing to any topic count, and adds exactly one to the count of its
\* sentiment label.
C6_EmptyTopicsRecord ==
  Ran("aggregate") =>
    \A i \in 1..Len(df) :
      (df[i].topics.kind = "list" /\ df[i].topics.items = <<>>) =>
        /\ \A k \in DOMAIN topic_counts :
             topic_counts[k] =
               Cardinality({ p \in PairsOf(df, k) : p[1] # i })
        /\ df[i].sentiment # None =>
             CountOf(sentiment_counts, df[i].sentiment) =
               1 + Cardinality({ j \in 1..Len(df) :
                                   j # i /\ df[j].sentiment = df[i].sentiment })

C6_Witness ==
  /\ Ran("aggregate")
  /\ \E i, j \in 1..Len(df) :
       /\ i # j
       /\ df[i].topics.kind = "list" /\ df[i].topics.items = <<>>
       /\ df[i].sentiment = "negative"
       /\ Len(LabelsOf(df[j])) = 2
       /\ sentiment_counts["negative"] = 1
       /\ DOMAIN topic_counts = { LabelAi, LabelCloud }

\* C7 (as claimed): for every date of the filtered records the daily-trend
\* counts of that date sum to the number of filtered records of that date.
C7_TrendSumsPerDate ==
  Ran("aggregate") =>
    \A day \in Dates(df) :
      DayTotal(day) = Cardinality({ i \in 1..Len(df) : df[i].date = day })

\* C8: the table holds one row per filtered record, as many as the headline
\* total and as the filter retained, in non-increasing order of publishedAt.
C8_TableRows ==
  Ran("layout") =>
    /\ Len(layout.data) = Len(df)
    /\ layout.total = Len(layout.data)
    /\ Cardinality(stored) <= QueryLimit => Len(layout.data) = Cardinality(Admitted)
    /\ \A t \in { TableRow(df[i]) : i \in 1..Len(df) } :
         Cardinality({ i \in 1..Len(layout.data) : layout.data[i] = t }) =
           Cardinality({ i \in 1..Len(df) : TableRow(df[i]) = t })
    /\ \A i \in 1..(Len(layout.data) - 1) :
         layout.data[i].publishedAt >= layout.data[i + 1].publishedAt

C8_Witness ==
  /\ Ran("layout")
  /\ Len(layout.data) = 2
  /\ layout.data[1].publishedAt > layout.data[2].publishedAt

\* C9 (as claimed): the loader returns at most 200 records, and every
\* record whose topics arrived as text holds the decoded sequence, whatever
\* the first record holds.
C9_LoaderDecodesAll ==
  pc = "filter" =>
    /\ Len(df) <= QueryLimit
    /\ Len(df) = Len(fetched.rows)
    /\ \A i \in 1..Len(df) :
         fetched.rows[i].topics.kind = "str" =>
           df[i].topics.kind \in {"list", "tuple"}

\* C10: the statement groups run once each in the fixed order, and a failure
\* of the load stage ends the process there: no later group has run and the
\* server is not started.
C10_LoadFailureStops ==
  /\ IsPrefix(trace, Order)
  /\ pc = "serving" => trace = Order
  /\ pc \notin {"crashed", "serving"} => pc = Order[Len(trace) + 1]
  /\ (pc # "load" /\ LoadFailure) =>
       /\ pc = "crashed"
       /\ trace = <<>>
       /\ df = <<>> /\ df_sorted = <<>> /\ layout = None

C10_Witness ==
  /\ pc = "crashed"
  /\ trace = <<>>
  /\ fetched.up
  /\ error = "SyntaxError"
  /\ Len(fetched.rows) = 2
  /\ fetched.rows[2].topics = Str(<<"[", "'", "a", "i">>)

====
